---- MODULE Spec2Model ----
(***************************************************************************)
(* Model of bad-synth (src/src/main.rs): the MIDI event callback, the note *)
(* registry and sustained set, the 16-slot sink pool, the per-sound ADSR   *)
(* envelope and frequency smoother closures run by the audio render loop,  *)
(* and the GPIO control inputs.                                            *)
(*                                                                         *)
(* Numbers.  f32 amplitudes are fixed point in units of 1/VOL_ONE.  f32     *)
(* frequencies are the f32 values themselves, written as integers in units *)
(* of 1/FREQ_ONE = 2^-20 Hz, and every sum is rounded as f32 rounds it.    *)
(* usize sample counts are exact (the model stops a sound's ticks long     *)
(* before a wrap).                                                         *)
(***************************************************************************)
EXTENDS Integers, Sequences, FiniteSets, TLC

VARIABLES
    voices,           \* arena of every Voice made by Voice::new (Arc-shared freq / releasing)
    playing_notes,    \* HashMap<u8, Voice>: note -> index into voices
    sustained_notes,  \* HashSet<u8>
    sinks,            \* SINKS: slot -> queue of sounds appended to the Sink, head is playing
    WAVE_TYPE,        \* lazy_static WAVE_TYPE
    ENV_TYPE,         \* lazy_static ENV_TYPE
    ADSR,             \* lazy_static ADSR
    poisoned,         \* TRUE once a callback panicked holding the registry locks
    connected,        \* input ports whose callback thread is alive
    max_polyphony_hits, \* number of dbg!("max polyphony hit") lines logged
    arrivals,         \* note-ons delivered so far, in order (polyphony scenario only)
    triggered,        \* pin of the last "Triggerd" line printed (control scenario only)
    pc,               \* lock-level position of every thread (lock scenario only)
    held              \* locks every thread holds, in acquisition order (lock scenario only)

vars == <<voices, playing_notes, sustained_notes, sinks, WAVE_TYPE, ENV_TYPE, ADSR,
          poisoned, connected, max_polyphony_hits, arrivals, triggered, pc, held>>

dataVars == <<voices, playing_notes, sustained_notes, sinks, WAVE_TYPE, ENV_TYPE, ADSR,
              poisoned, connected, max_polyphony_hits>>

----------------------------------------------------------------------------
(* Program constants *)

SAMPLE_RATE == 44000
MAX_POLYPHONY == 16
SAMPLE_RATE_MS == SAMPLE_RATE \div 1000
PINS == <<17, 27, 22, 5, 6, 26, 23, 24, 25, 16>>
WaveTypes == {"Sine", "Square", "Saw", "Triangle"}

\* Duration::from_millis(1) at SAMPLE_RATE, one channel: samples between two
\* runs of the envelope closure.
ENVELOPE_PERIOD == (1 * SAMPLE_RATE) \div 1000

\* Fixed-point units.
VOL_ONE == 2640
FREQ_ONE == 1048576

----------------------------------------------------------------------------
(* Bounds of the exploration *)

MaxVoices == 1        \* Voice::new calls explored by Spec
MaxTicks == 21        \* envelope ticks Spec explores for a sound nobody released
MaxQueue == 2         \* sounds queued on one Sink
PoolVoices == 2       \* Voice::new calls explored by SpecPool
PoolTicks == 1        \* envelope ticks SpecPool explores for a sound nobody released
NumPolyNotes == 17    \* note-ons of the polyphony scenario
PolyTicks == 3        \* envelope ticks SpecPoly explores for every sound
NumPorts == 2         \* input ports found by run()
ControlVoices == 2    \* Voices SpecControl creates
ReleaseVoices == 1    \* Voices SpecRelease creates
ReleaseTicks == 2     \* envelope ticks SpecRelease explores for a sound nobody released
SmootherVoices == 1   \* Voices SpecSmoother creates
LockVoices == 1       \* Voice::new calls explored by SpecLocks
LockTicks == 1        \* envelope ticks SpecLocks explores for every sound

Notes == {60, 69}
PolyNotes == 0 .. (NumPolyNotes - 1)
SustainValues == {0, 64, 127}
BendValues == {64, 127}

Ports == 1 .. NumPorts
Slots == 0 .. (MAX_POLYPHONY - 1)
None == -1

----------------------------------------------------------------------------
(* Helpers *)

Min(a, b) == IF a < b THEN a ELSE b

\* The f32 nearest to x (ties to even), for x in units of 2^-20 Hz: an f32 has
\* a 24-bit significand, so from 2^24 units (16 Hz) on only multiples of 2 are
\* f32 values, from 2^25 units on only multiples of 4, and so on.
quantum(a) ==
    IF a < 16777216 THEN 1
    ELSE IF a < 33554432 THEN 2
    ELSE IF a < 67108864 THEN 4
    ELSE IF a < 134217728 THEN 8
    ELSE IF a < 268435456 THEN 16
    ELSE IF a < 536870912 THEN 32
    ELSE IF a < 1073741824 THEN 64
    ELSE 128

\* The multiple of q nearest to x, ties to the even multiple.
nearest(x, q) ==
    LET lo == (x \div q) * q
        r == x - lo
    IN  IF 2 * r < q THEN lo
        ELSE IF 2 * r > q THEN lo + q
        ELSE IF (lo \div q) % 2 = 0 THEN lo ELSE lo + q

f32(x) == nearest(x, quantum(IF x < 0 THEN -x ELSE x))

\* midi_note_to_freq for the notes 0 .. 95:
\* 2f32.powf((midi_note as f32 - 69.0) / 12.0) * 440.0, each operation rounded
\* to f32, in units of 2^-20 Hz (note 69 is 440 Hz exactly).
NaturalFreq == <<
    8572946, 9082721, 9622806, 10195009, 10801237, 11443510,
    12123977, 12844908, 13608702, 14417920, 15275257, 16183566,
    17145892, 18165442, 19245612, 20390018, 21602474, 22887020,
    24247954, 25689816, 27217404, 28835840, 30550506, 32367140,
    34291784, 36330880, 38491232, 40780036, 43204940, 45774044,
    48495908, 51379620, 54434820, 57671680, 61101012, 64734280,
    68583568, 72661760, 76982464, 81560072, 86409880, 91548088,
    96991816, 102759240, 108869640, 115343360, 122202040, 129468544,
    137167136, 145323536, 153964912, 163120144, 172819776, 183096176,
    193983632, 205518512, 217739264, 230686720, 244404048, 258937088,
    274334272, 290647072, 307929824, 326240288, 345639552, 366192352,
    387967264, 411036992, 435478528, 461373440, 488808160, 517874176,
    548668544, 581294144, 615859648, 652480576, 691279104, 732384704,
    775934528, 822073984, 870957056, 922746880, 977616320, 1035748352,
    1097337088, 1162588288, 1231719296, 1304961152, 1382558208, 1464769408,
    1551869056, 1644148096, 1741914112, 1845493760, 1955232384, 2071496960 >>

midi_note_to_freq(midi_note) == NaturalFreq[midi_note + 1]

----------------------------------------------------------------------------
(* Sink: the part of rodio's Sink the program uses *)

empty(sink_idx) == Len(sinks[sink_idx]) = 0

\* Sink::pause is never called; Sink::play (the only writer) clears the flag.
is_paused(sink_idx) == FALSE

\* Voice::new
NewVoice(freq, wave_type, amp_env, sink_idx) ==
    [freq |-> freq, wave_type |-> wave_type, amp_env |-> amp_env,
     sink_idx |-> sink_idx, releasing |-> FALSE]

\* Wave::new wrapped by amplify(volume) and the two periodic_access closures,
\* as appended by Voice::play.  seen is the last value of the releasing flag
\* this sound's envelope closure has read (at append: the flag's value).
NewSound(v, voice) ==
    [voice |-> v, freq |-> voice.freq, num_sample |-> 0, volume |-> 0,
     num_sample_released |-> 0, seen |-> voice.releasing]

\* sink.append(..); sink.play()
SinkAppend(q, snd) == Append(q, snd)

----------------------------------------------------------------------------
(* midi_callback *)

\* Slot search of the note-on branch: first idle sink, else first paused sink.
first_empty ==
    IF \E i \in Slots : empty(i)
    THEN CHOOSE i \in Slots : empty(i) /\ \A j \in Slots : j < i => ~empty(j)
    ELSE None

first_paused ==
    IF \E i \in Slots : is_paused(i)
    THEN CHOOSE i \in Slots : is_paused(i) /\ \A j \in Slots : j < i => ~is_paused(j)
    ELSE None

\* (mutant) a full pool hands out slot 0 again
found_idx_steals == IF first_empty # None THEN first_empty ELSE 0

found_idx == IF first_empty # None THEN first_empty ELSE first_paused

\* A panic inside midi_callback unwinds while the three MutexGuards of lines
\* 276-278 are alive: the mutexes are poisoned and nothing else changes.
Panic ==
    /\ poisoned' = TRUE
    /\ UNCHANGED <<voices, playing_notes, sustained_notes, sinks, max_polyphony_hits>>

\* lock().unwrap() on a poisoned mutex (line 276)
CallbackPoisoned(message) ==
    /\ poisoned
    /\ Panic

\* message[1] on a one-byte message (line 281)
CallbackShort(message) ==
    /\ ~poisoned
    /\ Len(message) < 2
    /\ Panic

Status(message) == message[1]
Data1(message) == message[2]

\* note on, the note has a Voice: existing_voice.play()
\* A retrigger that would take a fresh snapshot of the global waveform type.
NoteOnExisting_resnapshot(message) ==
    /\ ~poisoned /\ Len(message) >= 2
    /\ Status(message) \in 144 .. 159
    /\ Data1(message) \in DOMAIN playing_notes
    /\ LET v == playing_notes[Data1(message)]
           s == voices[v].sink_idx
           note == [voices[v] EXCEPT !.wave_type = WAVE_TYPE]
       IN  /\ voices' = [voices EXCEPT ![v] = note]
           /\ sinks' = [sinks EXCEPT ![s] = SinkAppend(@, NewSound(v, note))]
    /\ UNCHANGED <<playing_notes, sustained_notes, poisoned, max_polyphony_hits>>

NoteOnExisting(message) ==
    /\ ~poisoned /\ Len(message) >= 2
    /\ Status(message) \in 144 .. 159
    /\ Data1(message) \in DOMAIN playing_notes
    /\ LET v == playing_notes[Data1(message)]
           s == voices[v].sink_idx
       IN  /\ sinks' = [sinks EXCEPT ![s] = SinkAppend(@, NewSound(v, voices[v]))]
    /\ UNCHANGED <<voices, playing_notes, sustained_notes, poisoned, max_polyphony_hits>>

\* note on, no Voice for the note: slot search, Voice::new, play, insert
NoteOnNew(message) ==
    /\ ~poisoned /\ Len(message) >= 2
    /\ Status(message) \in 144 .. 159
    /\ Data1(message) \notin DOMAIN playing_notes
    /\ LET sink_idx == found_idx
           \* a paused sink is stopped and replaced by a fresh one
           pool == IF first_empty = None /\ sink_idx # None
                   THEN [sinks EXCEPT ![sink_idx] = <<>>] ELSE sinks
           note == NewVoice(midi_note_to_freq(Data1(message)), WAVE_TYPE, ADSR, sink_idx)
           v == Len(voices) + 1
       IN  IF sink_idx # None
           THEN /\ voices' = Append(voices, note)
                /\ sinks' = [pool EXCEPT ![sink_idx] = SinkAppend(@, NewSound(v, note))]
                /\ playing_notes' = playing_notes @@ (Data1(message) :> v)
                /\ UNCHANGED max_polyphony_hits
           ELSE /\ max_polyphony_hits' = max_polyphony_hits + 1
                /\ UNCHANGED <<voices, sinks, playing_notes>>
    /\ UNCHANGED <<sustained_notes, poisoned>>

\* The Voices the registry holds.
Registered == {playing_notes[n] : n \in DOMAIN playing_notes}

\* Voice::stop
stop(vs, v) == [vs EXCEPT ![v].releasing = TRUE]

RECURSIVE stop_all(_, _)
stop_all(vs, S) ==
    IF S = {} THEN vs
    ELSE LET v == CHOOSE x \in S : TRUE IN stop_all(stop(vs, v), S \ {v})

Remove(map, key) == [k \in DOMAIN map \ {key} |-> map[k]]

\* note off
NoteOff(message) ==
    /\ ~poisoned /\ Len(message) >= 2
    /\ Status(message) \in 128 .. 143
    /\ IF /\ Data1(message) \in DOMAIN playing_notes
          /\ Data1(message) \notin sustained_notes
       THEN /\ voices' = stop(voices, playing_notes[Data1(message)])
            /\ playing_notes' = Remove(playing_notes, Data1(message))
       ELSE UNCHANGED <<voices, playing_notes>>
    /\ UNCHANGED <<sustained_notes, sinks, poisoned, max_polyphony_hits>>

\* mode change, controller 64, value 127
SustainOn(message) ==
    /\ ~poisoned /\ Len(message) >= 3
    /\ Status(message) \in 176 .. 191
    /\ Data1(message) = 64 /\ message[3] = 127
    /\ sustained_notes' = sustained_notes \cup
            {n \in DOMAIN playing_notes : ~is_paused(voices[playing_notes[n]].sink_idx)}
    /\ UNCHANGED <<voices, playing_notes, sinks, poisoned, max_polyphony_hits>>

\* mode change, controller 64, value 0
SustainOff(message) ==
    /\ ~poisoned /\ Len(message) >= 3
    /\ Status(message) \in 176 .. 191
    /\ Data1(message) = 64 /\ message[3] = 0
    /\ IF sustained_notes \subseteq DOMAIN playing_notes
       THEN /\ voices' = stop_all(voices, {playing_notes[n] : n \in sustained_notes})
            /\ sustained_notes' = {}
            /\ UNCHANGED poisoned
       ELSE \* playing_notes.get(note_midi).unwrap() on a missing note: the notes
            \* iterated before it (HashSet order) are stopped, then the panic
            /\ \E S \in SUBSET (sustained_notes \cap DOMAIN playing_notes) :
                   voices' = stop_all(voices, {playing_notes[n] : n \in S})
            /\ poisoned' = TRUE
            /\ UNCHANGED sustained_notes
    /\ UNCHANGED <<playing_notes, sinks, max_polyphony_hits>>

\* mode change, controller 64, any other value: unreachable!()
SustainOther(message) ==
    /\ ~poisoned /\ Len(message) >= 3
    /\ Status(message) \in 176 .. 191
    /\ Data1(message) = 64 /\ message[3] \notin {0, 127}
    /\ Panic

\* pitch bend
PitchBend(message) ==
    /\ ~poisoned /\ Len(message) >= 3
    /\ Status(message) \in 224 .. 239
    /\ LET bend_factor == message[3]
           bent == [v \in 1 .. Len(voices) |->
                      IF \E n \in DOMAIN playing_notes : playing_notes[n] = v
                      THEN LET midi_note == CHOOSE n \in DOMAIN playing_notes :
                                                playing_notes[n] = v
                           IN  [voices[v] EXCEPT !.freq = f32(midi_note_to_freq(midi_note)
                                                         + (bend_factor - 64) * FREQ_ONE)]
                      ELSE voices[v]]
       IN  /\ voices' = bent
    /\ UNCHANGED <<playing_notes, sustained_notes, sinks, poisoned, max_polyphony_hits>>

\* any other status, and a mode change of another controller: println only
Ignored(message) ==
    /\ ~poisoned /\ Len(message) >= 2
    /\ \/ Status(message) \notin 128 .. 191 /\ Status(message) \notin 224 .. 239
       \/ Status(message) \in 176 .. 191 /\ Data1(message) # 64
    /\ UNCHANGED <<voices, playing_notes, sustained_notes, sinks, poisoned,
                   max_polyphony_hits>>

midi_callback(message) ==
    /\ \/ CallbackPoisoned(message)
       \/ CallbackShort(message)
       \/ NoteOnExisting(message)
       \/ NoteOnNew(message)
       \/ NoteOff(message)
       \/ SustainOn(message)
       \/ SustainOff(message)
       \/ SustainOther(message)
       \/ PitchBend(message)
       \/ Ignored(message)
    /\ UNCHANGED <<WAVE_TYPE, ENV_TYPE, ADSR>>

----------------------------------------------------------------------------
(* The closures Voice::play hands to the render loop *)

\* One run of the frequency smoother closure (periodic_access, 50 ns: every sample).
smoother(current_freq, target_freq) ==
    IF current_freq # target_freq
    THEN IF current_freq > target_freq THEN f32(current_freq - FREQ_ONE)
         ELSE f32(current_freq + FREQ_ONE)
    ELSE current_freq

RECURSIVE smoother_n(_, _, _)
smoother_n(current_freq, target_freq, n) ==
    \* a frequency at its target stays there for the samples that remain
    IF n = 0 \/ current_freq = target_freq THEN current_freq
    ELSE \* the frequency after this sample is a value before the next sample runs
         CHOOSE f \in {smoother_n(smoother(c, t), t, n - 1) :
                           c \in {current_freq}, t \in {target_freq}} : TRUE

\* One run of the envelope closure (periodic_access, 1 ms) on sound snd of a
\* Voice with envelope amp_env.  r1 and r2 are the values of the releasing flag
\* read under the lock of line 170 and under the lock of line 173.
envelope(snd, amp_env, r1, r2) ==
    LET attack_num_samples == amp_env.attack * SAMPLE_RATE_MS
        decay_num_samples == amp_env.decay * SAMPLE_RATE_MS
        release_num_samples == amp_env.release * SAMPLE_RATE_MS
        attack_step == VOL_ONE \div attack_num_samples
        decay_step == (VOL_ONE - amp_env.sustain) \div decay_num_samples
        release_step == amp_env.sustain \div release_num_samples
        keep == [snd |-> snd, stopped |-> FALSE]
    IN  IF r1 /\ snd.num_sample_released = 0
        THEN [keep EXCEPT !.snd.num_sample_released = snd.num_sample,
                          !.snd.seen = r1]
        ELSE IF r2
        THEN IF snd.num_sample - snd.num_sample_released < release_num_samples
             THEN [keep EXCEPT !.snd.volume = snd.volume - release_step,
                               !.snd.seen = r2]
             ELSE [keep EXCEPT !.stopped = TRUE, !.snd.seen = r2]
        ELSE IF snd.num_sample < attack_num_samples
        THEN [keep EXCEPT !.snd.volume = snd.volume + attack_step, !.snd.seen = r2]
        ELSE IF snd.num_sample - attack_num_samples < decay_num_samples
        THEN [keep EXCEPT !.snd.volume = snd.volume - decay_step, !.snd.seen = r2]
        ELSE [keep EXCEPT !.snd.seen = r2]

\* The values the first read of the flag (line 170) can return when the second
\* (line 173) returns flag: the flag only ever goes from false to true, so the
\* first read differs only if the flag was set after this sound last read it.
FirstReads(snd, flag) == IF flag /\ ~snd.seen THEN {FALSE, TRUE} ELSE {flag}

\* The queue of sink s after the render loop has played one envelope period
\* (ENVELOPE_PERIOD samples) of the sound at its head: the envelope closure
\* runs before the first sample, the smoother before every sample.  A sound
\* the envelope stops ends at once and the sink goes on to the next one queued.
rendered(s, r1) ==
    LET snd == Head(sinks[s])
        voice == voices[snd.voice]
        out == envelope(snd, voice.amp_env, r1, voice.releasing)
        played == [out.snd EXCEPT
                      !.num_sample = @ + ENVELOPE_PERIOD,
                      !.freq = smoother_n(@, voice.freq, ENVELOPE_PERIOD)]
    IN  IF out.stopped THEN Tail(sinks[s]) ELSE <<played>> \o Tail(sinks[s])

RenderTick(s) ==
    /\ ~empty(s)
    /\ \E r1 \in FirstReads(Head(sinks[s]), voices[Head(sinks[s]).voice].releasing) :
          sinks' = [sinks EXCEPT ![s] = rendered(s, r1)]
    /\ UNCHANGED <<voices, playing_notes, sustained_notes, WAVE_TYPE, ENV_TYPE, ADSR,
                   poisoned, connected, max_polyphony_hits>>

\* One run of the smoother closure on the sound at the head of sink s: the
\* closure reads the Voice's target and writes the Wave's frequency, nothing else.
SmootherTick(s) ==
    /\ ~empty(s)
    /\ sinks' = [sinks EXCEPT ![s][1].freq = smoother(@, voices[Head(sinks[s]).voice].freq)]
    /\ UNCHANGED <<voices, playing_notes, sustained_notes, WAVE_TYPE, ENV_TYPE, ADSR,
                   poisoned, connected, max_polyphony_hits>>

----------------------------------------------------------------------------
(* Control inputs: the closure main() gives every EventListener *)

\* The local copy `adsr` after the handler of pins 25 and 16.
adjusted(adsr, env_type, pin) ==
    LET diff == IF pin = 25 THEN 10 ELSE -10
        affected == CASE env_type = 0 -> adsr.attack
                      [] env_type = 1 -> adsr.decay
                      [] env_type = 3 -> adsr.release
        value == IF affected >= 10 /\ affected <= 990 THEN affected + diff ELSE affected
    IN  CASE env_type = 0 -> [adsr EXCEPT !.attack = value]
          [] env_type = 1 -> [adsr EXCEPT !.decay = value]
          [] env_type = 3 -> [adsr EXCEPT !.release = value]

\* A handler that would write the adjusted copy back to ADSR.
pin_callback_writes(pin) ==
    /\ WAVE_TYPE' = CASE pin = 17 -> "Sine"
                      [] pin = 27 -> "Triangle"
                      [] pin = 22 -> "Square"
                      [] pin = 5 -> "Saw"
                      [] OTHER -> WAVE_TYPE
    /\ ENV_TYPE' = CASE pin = 6 -> 0
                     [] pin = 26 -> 1
                     [] pin = 23 -> 2
                     [] pin = 24 -> 3
                     [] OTHER -> ENV_TYPE
    /\ LET adsr == IF pin \in {25, 16} /\ ENV_TYPE \in {0, 1, 3}
                   THEN adjusted(ADSR, ENV_TYPE, pin) ELSE ADSR
       IN  ADSR' = adsr
    /\ UNCHANGED <<voices, playing_notes, sustained_notes, sinks, poisoned, connected,
                   max_polyphony_hits>>

\* Rising edge on a pin.  Pins 25 and 16 change `adsr`, a copy taken out of the
\* MutexGuard (Adsr is Copy); the copy is dropped and ADSR is never written.
pin_callback(pin) ==
    /\ WAVE_TYPE' = CASE pin = 17 -> "Sine"
                      [] pin = 27 -> "Triangle"
                      [] pin = 22 -> "Square"
                      [] pin = 5 -> "Saw"
                      [] OTHER -> WAVE_TYPE
    /\ ENV_TYPE' = CASE pin = 6 -> 0
                     [] pin = 26 -> 1
                     [] pin = 23 -> 2
                     [] pin = 24 -> 3
                     [] OTHER -> ENV_TYPE
    /\ LET adsr == IF pin \in {25, 16} /\ ENV_TYPE \in {0, 1, 3}
                   THEN adjusted(ADSR, ENV_TYPE, pin) ELSE ADSR
       IN  ADSR' = ADSR
    /\ UNCHANGED <<voices, playing_notes, sustained_notes, sinks, poisoned, connected,
                   max_polyphony_hits>>

----------------------------------------------------------------------------
(* The synthesizer: events and render ticks *)

\* Threads: one callback thread per input port, the render loop, one
\* EventListener thread per pin.
LockPins == {25}
Threads ==
    {<<"midi", port>> : port \in Ports} \cup {<<"render", 0>>}
    \cup {<<"gpio", pin>> : pin \in LockPins}

Init ==
    /\ voices = <<>>
    /\ playing_notes = [n \in {} |-> 0]
    /\ sustained_notes = {}
    /\ sinks = [i \in Slots |-> <<>>]
    /\ WAVE_TYPE = "Triangle"
    /\ ENV_TYPE = 0
    /\ ADSR = [attack |-> 10, decay |-> 10, sustain |-> VOL_ONE, release |-> 10]
    /\ poisoned = FALSE
    /\ connected = Ports
    /\ max_polyphony_hits = 0
    /\ arrivals = <<>>
    /\ triggered = None
    /\ pc = [t \in Threads |-> <<>>]
    /\ held = [t \in Threads |-> <<>>]

\* Messages the event source delivers (Ignore::None: real-time bytes included).
NoteMessages == {<<144, n, 100>> : n \in Notes} \cup {<<128, n, 0>> : n \in Notes}

Messages ==
    NoteMessages
    \cup {<<176, 64, x>> : x \in SustainValues} \cup {<<176, 1, 5>>}
    \cup {<<224, 0, b>> : b \in BendValues}
    \cup {<<192, 5>>, <<248>>}

PoolMessages == NoteMessages \cup {<<176, 64, 127>>, <<176, 64, 0>>}

\* The exploration stops at max_voices Voices and MaxQueue sounds per sink.
WithinBounds(message, max_voices) ==
    (Len(message) >= 2 /\ Status(message) \in 144 .. 159 /\ ~poisoned) =>
        IF Data1(message) \in DOMAIN playing_notes
        THEN Len(sinks[voices[playing_notes[Data1(message)]].sink_idx]) < MaxQueue
        ELSE Len(voices) < max_voices

\* ... and at max_ticks envelope ticks of a sound nobody released.
TickWithinBounds(s, max_ticks) ==
    IF empty(s) THEN TRUE
    ELSE IF voices[Head(sinks[s]).voice].releasing THEN TRUE
    ELSE Head(sinks[s]).num_sample < max_ticks * ENVELOPE_PERIOD

\* The closure run() connects to every input port calls midi_callback on the
\* port's own thread; a panic in the callback ends that thread.
port_callback(port, message) ==
    /\ port \in connected
    /\ midi_callback(message)
    /\ connected' = IF poisoned' THEN connected \ {port} ELSE connected

Deliver(port, message, max_voices) ==
    /\ WithinBounds(message, max_voices)
    /\ port_callback(port, message)
    /\ UNCHANGED <<arrivals, triggered, pc, held>>

Render(s, max_ticks) ==
    /\ TickWithinBounds(s, max_ticks)
    /\ RenderTick(s)
    /\ UNCHANGED <<arrivals, triggered, pc, held>>

\* One Voice for its whole life, every kind of message.
Next ==
    \/ \E port \in Ports, message \in Messages : Deliver(port, message, MaxVoices)
    \/ \E s \in Slots : Render(s, MaxTicks)

Spec == Init /\ [][Next]_vars

\* Two Voices sharing the pool: notes and the sustain pedal.
NextPool ==
    \/ \E port \in Ports, message \in PoolMessages : Deliver(port, message, PoolVoices)
    \/ \E s \in Slots : Render(s, PoolTicks)

SpecPool == Init /\ [][NextPool]_vars

\* The polyphony scenario: from the all-idle pool, note-ons for the distinct
\* notes 0, 1, 2, ... arrive one after the other, with no other message in
\* between, while the render loop plays the sounds.
PolyDeliver(port) ==
    /\ Len(arrivals) < NumPolyNotes
    /\ port_callback(port, <<144, Len(arrivals), 100>>)
    /\ arrivals' = Append(arrivals, Len(arrivals))
    /\ UNCHANGED <<triggered, pc, held>>

\* The mixer pulls the same period from every sink that has a sound.
PolyRender ==
    LET due == {s \in Slots : ~empty(s) /\
                   Head(sinks[s]).num_sample < PolyTicks * ENVELOPE_PERIOD}
    IN  /\ due # {}
        /\ sinks' = [s \in Slots |->
                        IF s \in due
                        THEN rendered(s, voices[Head(sinks[s]).voice].releasing)
                        ELSE sinks[s]]
        /\ UNCHANGED <<voices, playing_notes, sustained_notes, WAVE_TYPE, ENV_TYPE, ADSR,
                       poisoned, connected, max_polyphony_hits, arrivals, triggered, pc, held>>

NextPoly ==
    \/ \E port \in Ports : PolyDeliver(port)
    \/ PolyRender

SpecPoly == Init /\ [][NextPoly]_vars

\* The release scenario: one note and the sustain pedal, with the render loop
\* playing every sink that has a sound (the mixer pulls from all of them).
ReleaseMessages == {<<144, 60, 100>>, <<128, 60, 0>>, <<176, 64, 127>>, <<176, 64, 0>>}

NextRelease ==
    \/ \E port \in Ports, message \in ReleaseMessages : Deliver(port, message, ReleaseVoices)
    \/ \E s \in Slots : Render(s, ReleaseTicks)

FairRender == \A s \in Slots : WF_vars(Render(s, ReleaseTicks))

SpecRelease == Init /\ [][NextRelease]_vars /\ FairRender

\* The pitch-wheel scenario: one Voice, A4 or A#4, bent up and back, with the
\* smoother closure run sample by sample.
SmootherNotes == {69, 70}
SmootherMessages ==
    {<<144, n, 100>> : n \in SmootherNotes} \cup {<<224, 0, b>> : b \in BendValues}

Smooth(s) ==
    /\ SmootherTick(s)
    /\ UNCHANGED <<arrivals, triggered, pc, held>>

NextSmoother ==
    \/ \E port \in Ports, message \in SmootherMessages : Deliver(port, message, SmootherVoices)
    \/ \E s \in Slots : Smooth(s)

FairSmoother == \A s \in Slots : WF_vars(Smooth(s))

SpecSmoother == Init /\ [][NextSmoother]_vars /\ FairSmoother

\* The control scenario: rising edges on the ten pins while notes come and go.
\* The sounds are left unplayed (no render tick).
Trigger(pin) ==
    /\ pin_callback(pin)
    /\ triggered' = pin
    /\ UNCHANGED <<arrivals, pc, held>>

NextControl ==
    \/ \E i \in 1 .. Len(PINS) : Trigger(PINS[i])
    \/ \E port \in Ports, message \in NoteMessages : Deliver(port, message, ControlVoices)

SpecControl == Init /\ [][NextControl]_vars

----------------------------------------------------------------------------
(* Lock level: every thread as the sequence of lock operations its code      *)
(* performs.  pc[t] is what thread t has still to do in its current          *)
(* operation: <<"acq", lock>>, <<"rel", lock>>, or the step at which the      *)
(* operation's effect on the data takes place.                               *)

PLAYING_NOTES == <<"playing_notes", 0>>
SUSTAINED_NOTES == <<"sustained_notes", 0>>
STREAM_HANDLE == <<"stream_handle", 0>>
WAVE_TYPE_LOCK == <<"WAVE_TYPE", 0>>
ENV_TYPE_LOCK == <<"ENV_TYPE", 0>>
ADSR_LOCK == <<"ADSR", 0>>
freq_lock(v) == <<"freq", v>>
releasing_lock(v) == <<"releasing", v>>
stop_lock(pin) == <<"stop", pin>>

\* A temporary MutexGuard: locked and dropped within one statement.
locked(lock) == << <<"acq", lock>>, <<"rel", lock>> >>

RECURSIVE locked_each(_, _)
locked_each(lock_of(_), S) ==
    IF S = {} THEN <<>>
    ELSE LET v == CHOOSE x \in S : \A y \in S : x <= y
         IN  locked(lock_of(v)) \o locked_each(lock_of, S \ {v})

\* Locks midi_callback takes, after the three of lines 276-278, on message.
callback_locks(message) ==
    IF Len(message) < 2 THEN <<>>
    ELSE IF Status(message) \in 144 .. 159
    THEN IF Data1(message) \in DOMAIN playing_notes
         THEN locked(freq_lock(playing_notes[Data1(message)]))
         ELSE IF found_idx # None
         THEN \* both guards are temporaries of the `let note = Voice::new(..)` statement
              << <<"acq", WAVE_TYPE_LOCK>>, <<"acq", ADSR_LOCK>>,
                 <<"rel", ADSR_LOCK>>, <<"rel", WAVE_TYPE_LOCK>> >>
              \o locked(freq_lock(Len(voices) + 1))
         ELSE <<>>
    ELSE IF Status(message) \in 128 .. 143
    THEN IF Data1(message) \in DOMAIN playing_notes /\ Data1(message) \notin sustained_notes
         THEN locked(releasing_lock(playing_notes[Data1(message)]))
         ELSE <<>>
    ELSE IF Status(message) \in 176 .. 191
    THEN IF Len(message) >= 3 /\ Data1(message) = 64 /\ message[3] = 0
         THEN locked_each(releasing_lock,
                          {playing_notes[n] : n \in sustained_notes \cap DOMAIN playing_notes})
         ELSE <<>>
    ELSE IF Status(message) \in 224 .. 239
    THEN locked_each(freq_lock, Registered)
    ELSE <<>>

Free(lock) == \A t \in Threads : \A i \in 1 .. Len(held[t]) : held[t][i] # lock

Without(locks, lock) == SelectSeq(locks, LAMBDA l : l # lock)

Acquire(t) ==
    /\ pc[t] # <<>> /\ Head(pc[t])[1] = "acq"
    /\ Free(Head(pc[t])[2])
    /\ held' = [held EXCEPT ![t] = Append(@, Head(pc[t])[2])]
    /\ pc' = [pc EXCEPT ![t] =
                 \* lock() on a poisoned Mutex takes the lock and returns Err:
                 \* the unwrap() of lines 276-278 panics with the guard in hand
                 IF poisoned /\ Head(pc[t])[2] \in {PLAYING_NOTES, SUSTAINED_NOTES, STREAM_HANDLE}
                 THEN << <<"match", t[2]>> >>
                 ELSE Tail(@)]
    /\ UNCHANGED <<dataVars, arrivals, triggered>>

Release(t) ==
    /\ pc[t] # <<>> /\ Head(pc[t])[1] = "rel"
    /\ held' = [held EXCEPT ![t] = Without(@, Head(pc[t])[2])]
    /\ pc' = [pc EXCEPT ![t] = Tail(@)]
    /\ UNCHANGED <<dataVars, arrivals, triggered>>

\* midi_callback is entered on a port's thread: lines 276-278.
CallbackEnter(port) ==
    /\ pc[<<"midi", port>>] = <<>>
    /\ port \in connected
    /\ pc' = [pc EXCEPT ![<<"midi", port>>] =
                 << <<"acq", PLAYING_NOTES>>, <<"acq", SUSTAINED_NOTES>>,
                    <<"acq", STREAM_HANDLE>>, <<"match", port>> >>]
    /\ UNCHANGED <<dataVars, arrivals, triggered, held>>

\* The match on the status byte: the handler's effect, then the locks it takes,
\* then the three guards dropped at the end of the function (or by the unwinding
\* of a panic, which drops the guards the thread holds).
CallbackMatch(port, message) ==
    /\ pc[<<"midi", port>>] # <<>> /\ Head(pc[<<"midi", port>>])[1] = "match"
    /\ WithinBounds(message, LockVoices)
    /\ port_callback(port, message)
    /\ pc' = [pc EXCEPT ![<<"midi", port>>] =
                 (IF poisoned' THEN <<>> ELSE callback_locks(message))
                 \o << <<"rel", STREAM_HANDLE>>, <<"rel", SUSTAINED_NOTES>>,
                       <<"rel", PLAYING_NOTES>> >>]
    /\ UNCHANGED <<arrivals, triggered, held>>

\* The render loop plays an envelope period of sink s: the smoother closure
\* (line 193), the envelope closure (lines 170 and 173), then the samples.
RenderEnter(s) ==
    /\ pc[<<"render", 0>>] = <<>>
    /\ ~empty(s) /\ Head(sinks[s]).num_sample < LockTicks * ENVELOPE_PERIOD
    /\ LET snd == Head(sinks[s])
           first_only == voices[snd.voice].releasing /\ snd.num_sample_released = 0
       IN  pc' = [pc EXCEPT ![<<"render", 0>>] =
                    locked(freq_lock(snd.voice))
                    \o locked(releasing_lock(snd.voice))
                    \o (IF first_only THEN <<>> ELSE locked(releasing_lock(snd.voice)))
                    \o << <<"tick", s>> >>]
    /\ UNCHANGED <<dataVars, arrivals, triggered, held>>

RenderPlay(s) ==
    /\ pc[<<"render", 0>>] # <<>> /\ Head(pc[<<"render", 0>>]) = <<"tick", s>>
    /\ RenderTick(s)
    /\ pc' = [pc EXCEPT ![<<"render", 0>>] = Tail(@)]
    /\ UNCHANGED <<arrivals, triggered, held>>

\* EventListener thread of a pin: the loop condition (line 448), then on a
\* rising edge the closure of main().
listener_locks(pin) ==
    IF pin \in {17, 27, 22, 5}
    THEN << <<"acq", WAVE_TYPE_LOCK>>, <<"set", pin>>, <<"rel", WAVE_TYPE_LOCK>> >>
    ELSE IF pin \in {6, 26, 23, 24}
    THEN << <<"acq", ENV_TYPE_LOCK>>, <<"set", pin>>, <<"rel", ENV_TYPE_LOCK>> >>
    ELSE IF pin \in {25, 16}
    THEN << <<"acq", ENV_TYPE_LOCK>>, <<"env_type", pin>> >>
    ELSE << <<"set", pin>> >>

ListenerPoll(pin) ==
    /\ pc[<<"gpio", pin>>] = <<>>
    /\ \E rising \in BOOLEAN :
          pc' = [pc EXCEPT ![<<"gpio", pin>>] =
                    locked(stop_lock(pin))
                    \o (IF rising THEN listener_locks(pin) ELSE <<>>)]
    /\ UNCHANGED <<dataVars, arrivals, triggered, held>>

\* A handler that would lock WAVE_TYPE while it holds ADSR, against the order
\* in which Voice creation takes the two.
ListenerEnvType_nested(pin) ==
    /\ pc[<<"gpio", pin>>] # <<>> /\ Head(pc[<<"gpio", pin>>]) = <<"env_type", pin>>
    /\ pc' = [pc EXCEPT ![<<"gpio", pin>>] =
                 << <<"rel", ENV_TYPE_LOCK>> >>
                 \o (IF ENV_TYPE \in {0, 1, 3}
                     THEN << <<"acq", ADSR_LOCK>>, <<"acq", WAVE_TYPE_LOCK>>, <<"set", pin>>,
                             <<"rel", WAVE_TYPE_LOCK>>, <<"rel", ADSR_LOCK>> >>
                     ELSE << <<"set", pin>> >>)]
    /\ UNCHANGED <<dataVars, arrivals, triggered, held>>

\* let env_type = *ENV_TYPE.lock().unwrap(); the guard is dropped, then ADSR
\* is locked if env_type selects a duration.
ListenerEnvType(pin) ==
    /\ pc[<<"gpio", pin>>] # <<>> /\ Head(pc[<<"gpio", pin>>]) = <<"env_type", pin>>
    /\ pc' = [pc EXCEPT ![<<"gpio", pin>>] =
                 << <<"rel", ENV_TYPE_LOCK>> >>
                 \o (IF ENV_TYPE \in {0, 1, 3}
                     THEN << <<"acq", ADSR_LOCK>>, <<"set", pin>>, <<"rel", ADSR_LOCK>> >>
                     ELSE << <<"set", pin>> >>)]
    /\ UNCHANGED <<dataVars, arrivals, triggered, held>>

ListenerSet(pin) ==
    /\ pc[<<"gpio", pin>>] # <<>> /\ Head(pc[<<"gpio", pin>>]) = <<"set", pin>>
    /\ pin_callback(pin)
    /\ pc' = [pc EXCEPT ![<<"gpio", pin>>] = Tail(@)]
    /\ UNCHANGED <<arrivals, triggered, held>>

LockMessages ==
    {<<144, 69, 100>>, <<128, 69, 0>>, <<176, 64, 127>>, <<176, 64, 0>>,
     <<224, 0, 127>>, <<248>>}

\* What the threads do apart from handling a message.
LockSteps ==
    \/ \E t \in Threads : Acquire(t)
    \/ \E t \in Threads : Release(t)
    \/ \E port \in Ports : CallbackEnter(port)
    \/ \E s \in Slots : RenderEnter(s)
    \/ \E s \in Slots : RenderPlay(s)
    \/ \E pin \in LockPins : ListenerPoll(pin)
    \/ \E pin \in LockPins : ListenerEnvType(pin)
    \/ \E pin \in LockPins : ListenerSet(pin)

NextLocks ==
    \/ LockSteps
    \/ \E port \in Ports, message \in LockMessages : CallbackMatch(port, message)

SpecLocks == Init /\ [][NextLocks]_vars

\* The messages of the scheduling scenario: one note, on and off (between them
\* they take every kind of lock the callback takes), and a message the callback
\* panics on.
FairMessages == {<<144, 69, 100>>, <<128, 69, 0>>, <<248>>}

NextLocksFair ==
    \/ LockSteps
    \/ \E port \in Ports, message \in FairMessages : CallbackMatch(port, message)

\* The steps thread t takes by itself once it has begun an operation.
ThreadStep(t) ==
    \/ Acquire(t)
    \/ Release(t)
    \/ t[1] = "midi" /\ \E message \in FairMessages : CallbackMatch(t[2], message)
    \/ t[1] = "render" /\ \E s \in Slots : RenderPlay(s)
    \/ t[1] = "gpio" /\ (ListenerEnvType(t[2]) \/ ListenerSet(t[2]))

\* Scheduling.  Every thread that can take a step is eventually run, and a
\* thread blocked in lock() gets the Mutex if it is free again and again
\* (no waiter is passed over forever).  Message arrivals, render requests and
\* pin edges (CallbackEnter, RenderEnter, ListenerPoll) are under no obligation.
FairLocks == \A t \in Threads : SF_vars(ThreadStep(t))

SpecLocksFair == Init /\ [][NextLocksFair]_vars /\ FairLocks

----------------------------------------------------------------------------
(* Properties *)

\* A step in which midi_callback runs on message, on some port's thread.
Handles(message) == \E port \in Ports : port_callback(port, message)

SameSlots ==
    /\ Len(voices') >= Len(voices)
    /\ \A v \in 1 .. Len(voices) : voices'[v].sink_idx = voices[v].sink_idx

SameFlags ==
    /\ Len(voices') >= Len(voices)
    /\ \A v \in 1 .. Len(voices) : voices'[v].releasing = voices[v].releasing

\* C1: no two Voices held in the note registry have the same sink_idx.
C1_DistinctSlots ==
    \A n, m \in DOMAIN playing_notes :
        n # m => voices[playing_notes[n]].sink_idx # voices[playing_notes[m]].sink_idx

\* C2: of the note-ons that arrived, the first MAX_POLYPHONY are registered,
\* each with a slot of its own, and every further one is dropped: seventeen
\* note-ons leave sixteen Voices and one dropped note-on.
C2_SixteenThenDrop ==
    LET N == Len(arrivals)
    IN  /\ DOMAIN playing_notes = {arrivals[i] : i \in 1 .. Min(N, MAX_POLYPHONY)}
        /\ Cardinality(DOMAIN playing_notes) = Min(N, MAX_POLYPHONY)
        /\ Cardinality({voices[v].sink_idx : v \in Registered}) = Min(N, MAX_POLYPHONY)
        /\ max_polyphony_hits = IF N > MAX_POLYPHONY THEN N - MAX_POLYPHONY ELSE 0

C2_SeventeenArrived ==
    /\ Len(arrivals) = MAX_POLYPHONY + 1
    /\ max_polyphony_hits = 1
    /\ Cardinality(DOMAIN playing_notes) = MAX_POLYPHONY
    /\ \E s \in Slots : ~empty(s) /\ Head(sinks[s]).num_sample > 0

SustainHoldsNote ==
    \A n \in Notes :
          (n \in sustained_notes /\ n \in DOMAIN playing_notes) =>
             LET v == playing_notes[n]
             IN  /\ Handles(<<128, n, 0>>) =>
                        /\ voices'[v].releasing = voices[v].releasing
                        /\ n \in DOMAIN playing_notes'
                 /\ (voices'[v].releasing # voices[v].releasing) =>
                        Handles(<<176, 64, 0>>)
                 /\ Handles(<<176, 64, 0>>) => voices'[v].releasing

\* C3: while a note is in the sustained set, a note-off for it neither sets
\* its Voice's release flag nor removes it from the registry; the flag is set
\* only by the sustain release (controller 64, value 0), and that event sets it.
C3_SustainHoldsNote == [][SustainHoldsNote]_vars

\* ... which holds of every step taken before any callback has panicked.
C3_SustainHoldsNote_UnlessPoisoned == [][~poisoned => SustainHoldsNote]_vars

RetriggerKeepsSlot ==
    \A n \in Notes :
          (n \in DOMAIN playing_notes /\ Handles(<<144, n, 100>>)) =>
             LET v == playing_notes[n]
                 s == voices[v].sink_idx
             IN  /\ playing_notes' = playing_notes
                 /\ SameSlots
                 /\ Len(sinks'[s]) = Len(sinks[s]) + 1
                 /\ sinks'[s][Len(sinks'[s])].voice = v
                 /\ \A i \in Slots \ {s} : sinks'[i] = sinks[i]

\* C4: a note-on for a note that has a Voice leaves the registry and every
\* Voice's slot index unchanged, and queues the new sound on that Voice's sink
\* and on no other.
C4_RetriggerKeepsSlot == [][RetriggerKeepsSlot]_vars

\* ... which holds of every step taken before any callback has panicked.
C4_RetriggerKeepsSlot_UnlessPoisoned == [][~poisoned => RetriggerKeepsSlot]_vars

\* C5: a sound nobody released has amplitude multiplier 1.0 once the attack
\* duration's worth of envelope ticks has run.
C5_AttackReachesOne ==
    \A s \in Slots :
        ~empty(s) =>
            LET snd == Head(sinks[s])
                voice == voices[snd.voice]
            IN  (/\ ~voice.releasing
                 /\ snd.num_sample = voice.amp_env.attack * ENVELOPE_PERIOD)
                => snd.volume = VOL_ONE

\* C6: a sound released in its sustain phase stops with amplitude multiplier 0,
\* within the release duration (plus or minus one envelope tick) of the tick
\* that saw the request, and leaves its sink idle.
C6_ReleaseEndsSilent ==
    [][\A s \in Slots :
          (/\ ~empty(s)
           /\ sinks'[s] = Tail(sinks[s])
           /\ LET snd == Head(sinks[s])
                   amp_env == voices[snd.voice].amp_env
               IN  snd.num_sample_released >=
                       (amp_env.attack + amp_env.decay) * ENVELOPE_PERIOD)
          => LET snd == Head(sinks[s])
                 amp_env == voices[snd.voice].amp_env
                 elapsed == snd.num_sample - snd.num_sample_released
             IN  /\ snd.volume = 0
                 /\ elapsed >= (amp_env.release - 1) * ENVELOPE_PERIOD
                 /\ elapsed <= (amp_env.release + 1) * ENVELOPE_PERIOD
                 /\ empty(s)']_vars

PitchBendTargets ==
    \A b \in BendValues :
          Handles(<<224, 0, b>>) =>
             /\ \A n \in DOMAIN playing_notes :
                    voices'[playing_notes[n]].freq =
                        midi_note_to_freq(n) + (b - 64) * FREQ_ONE
             /\ playing_notes' = playing_notes
             /\ sustained_notes' = sustained_notes
             /\ SameSlots

\* C7: a pitch bend with value b sets the target frequency of every Voice in
\* the registry to the note's natural frequency plus (b - 64), and changes
\* neither the registry, the sustained set nor a slot index.
C7_PitchBendTargets == [][PitchBendTargets]_vars

\* ... which holds of every step taken before any callback has panicked.
C7_PitchBendTargets_UnlessPoisoned == [][~poisoned => PitchBendTargets]_vars

NoteOffReleases ==
    \A n \in Notes :
          Handles(<<128, n, 0>>) =>
             IF n \in DOMAIN playing_notes /\ n \notin sustained_notes
             THEN /\ voices'[playing_notes[n]].releasing
                  /\ n \notin DOMAIN playing_notes'
                  /\ sustained_notes' = sustained_notes
             ELSE /\ playing_notes' = playing_notes
                  /\ sustained_notes' = sustained_notes
                  /\ SameFlags

\* C8: a note-off for a registered note outside the sustained set sets its
\* Voice's release flag and removes the note from the registry; any other
\* note-off changes neither the registry, the sustained set nor a release flag.
C8_NoteOff == [][NoteOffReleases]_vars

\* ... which holds of every step taken before any callback has panicked.
C8_NoteOff_UnlessPoisoned == [][~poisoned => NoteOffReleases]_vars

\* C10: no thread acquires a lock while it holds another lock.
C10_NoNestedLocks ==
    [][\A t \in Threads : Len(held'[t]) > Len(held[t]) => held[t] = <<>>]_vars

\* C9: no delivered message faults the engine: no lock is ever poisoned and
\* every port's callback keeps running.
C9_NoFault == ~poisoned /\ connected = Ports

\* The locks a thread may ask for.
LocksOf(t) ==
    IF t[1] = "midi"
    THEN {PLAYING_NOTES, SUSTAINED_NOTES, STREAM_HANDLE, WAVE_TYPE_LOCK, ADSR_LOCK}
         \cup {freq_lock(v) : v \in 1 .. LockVoices}
         \cup {releasing_lock(v) : v \in 1 .. LockVoices}
    ELSE IF t[1] = "render"
    THEN {freq_lock(v) : v \in 1 .. LockVoices} \cup {releasing_lock(v) : v \in 1 .. LockVoices}
    ELSE {stop_lock(t[2]), WAVE_TYPE_LOCK, ENV_TYPE_LOCK, ADSR_LOCK}

Wants(t, lock) == pc[t] # <<>> /\ Head(pc[t]) = <<"acq", lock>>
Holds(t, lock) == \E i \in 1 .. Len(held[t]) : held[t][i] = lock

\* A set of threads each blocked on a lock that another thread of the set holds.
CircularWait(D) ==
    /\ D # {}
    /\ \A t \in D : \E lock \in LocksOf(t), u \in D : Wants(t, lock) /\ Holds(u, lock)

selected(adsr, env_type) ==
    CASE env_type = 0 -> adsr.attack
      [] env_type = 1 -> adsr.decay
      [] env_type = 3 -> adsr.release

\* C12: the process-wide ADSR attack, decay and release stay within [10, 990] ms.
C12_AdsrInRange ==
    /\ ADSR.attack \in 10 .. 990
    /\ ADSR.decay \in 10 .. 990
    /\ ADSR.release \in 10 .. 990

\* The decrement handler has run with a duration selected that stands at 10.
C12_DecrementAtFloor ==
    /\ triggered = 16
    /\ ENV_TYPE \in {0, 1, 3}
    /\ selected(ADSR, ENV_TYPE) = 10

AdsrStep ==
    \A pin \in {25, 16} :
        (Trigger(pin) /\ ENV_TYPE \in {0, 1, 3}) =>
            LET old == selected(ADSR, ENV_TYPE)
                new == selected(ADSR', ENV_TYPE)
            IN  /\ (pin = 25 /\ old <= 980) => new = old + 10
                /\ (pin = 16 /\ old >= 20) => new = old - 10

NewVoiceSnapshot ==
    Len(voices') > Len(voices) => voices'[Len(voices')].amp_env = ADSR

\* C13: an increment (decrement) trigger with attack, decay or release selected
\* changes that duration of the process-wide ADSR by 10 ms, and a Voice created
\* afterwards carries the ADSR of the time in its snapshot.
C13_AdsrStepReachesVoices == [][AdsrStep /\ NewVoiceSnapshot]_vars

VoiceFieldsFixed ==
    /\ Len(voices') >= Len(voices)
    /\ \A v \in 1 .. Len(voices) :
          /\ voices'[v].wave_type = voices[v].wave_type
          /\ voices'[v].amp_env = voices[v].amp_env
          /\ voices'[v].sink_idx = voices[v].sink_idx
    /\ \A v \in Len(voices) + 1 .. Len(voices') :
          /\ voices'[v].wave_type = WAVE_TYPE
          /\ voices'[v].amp_env = ADSR

\* C17: a Voice's waveform type, envelope snapshot and slot index never change
\* once it is created, whatever the control inputs do and also on a retrigger;
\* a Voice created later has the global waveform type and ADSR of that time.
C17_VoiceFieldsFixed == [][VoiceFieldsFixed]_vars

\* Two Voices with different waveform types, one of them retriggered after the
\* global waveform type moved away from its own.
C17_RetriggeredAfterChange ==
    \E v, w \in 1 .. Len(voices) :
        /\ voices[v].wave_type # voices[w].wave_type
        /\ voices[v].wave_type # WAVE_TYPE
        /\ triggered \in {25, 16}
        /\ \E i \in 2 .. Len(sinks[voices[v].sink_idx]) : sinks[voices[v].sink_idx][i].voice = v

\* C14: every Voice whose release flag is set eventually has its slot idle.
C14_ReleasedVoicesStop ==
    \A v \in 1 .. ReleaseVoices :
        (v <= Len(voices) /\ voices[v].releasing)
            ~> (v <= Len(voices) /\ empty(voices[v].sink_idx))

\* ... which holds of the Voices the registry no longer holds.
C14_ReleasedVoicesStop_Unregistered ==
    \A v \in 1 .. ReleaseVoices :
        (v <= Len(voices) /\ voices[v].releasing /\ v \notin Registered)
            ~> (v <= Len(voices) /\ empty(voices[v].sink_idx))

ReleaseIsCooperative ==
    \* setting a release flag changes no sink
    /\ (\E v \in 1 .. Len(voices) : voices'[v].releasing /\ ~voices[v].releasing)
           => sinks' = sinks
    \* a sound of a released Voice leaves its sink only by a tick that finds the
    \* flag observed and recorded by an earlier tick, release_num_samples back
    /\ \A s \in Slots :
          (~empty(s) /\ sinks'[s] = Tail(sinks[s])) =>
             LET snd == Head(sinks[s])
                 release_num_samples == voices[snd.voice].amp_env.release * SAMPLE_RATE_MS
             IN  /\ RenderTick(s)
                 /\ snd.seen
                 /\ snd.num_sample_released > 0
                 /\ snd.num_sample - snd.num_sample_released >= release_num_samples

\* C15: setting a release flag changes no sink and no amplitude; a sound is
\* stopped only by an envelope tick later than the tick that first observed the
\* flag, and not before the release duration has elapsed since that tick.
C15_ReleaseIsCooperative == [][ReleaseIsCooperative]_vars

SmootherStepsOneUnit ==
    \A s \in Slots :
        SmootherTick(s) =>
            LET current == Head(sinks[s]).freq
                target == voices[Head(sinks[s]).voice].freq
                new == Head(sinks'[s]).freq
            IN  new = IF current = target THEN current
                      ELSE IF current < target THEN current + FREQ_ONE
                      ELSE current - FREQ_ONE

\* The targets a Voice of the pitch-wheel scenario can have.
SmootherTargets ==
    {f32(midi_note_to_freq(n) + (b - 64) * FREQ_ONE) : n \in SmootherNotes, b \in BendValues}

\* Once the target of the Voice stays at T, the frequency of its sound in play
\* is eventually T and stays T.
SmootherSettles ==
    \A T \in SmootherTargets :
        <>[](Len(voices) >= 1 /\ voices[1].freq = T)
            => <>[](Len(voices) >= 1 /\ Head(sinks[voices[1].sink_idx]).freq = T)

\* C16: a smoother tick moves the current frequency by exactly one unit toward
\* the target when they differ and leaves it when they are equal; once the
\* target stops changing the current frequency eventually equals it for good.
C16_SmootherConverges == [][SmootherStepsOneUnit]_vars /\ SmootherSettles

\* ... of which the second half alone.
C16_SmootherSettles == SmootherSettles

\* C18: every Voice the registry holds has its release flag unset.
C18_RegistryUnreleased == \A v \in Registered : ~voices[v].releasing

SustainedAreRegistered ==
    /\ sustained_notes \subseteq DOMAIN playing_notes
    /\ sustained_notes' \subseteq DOMAIN playing_notes'
    /\ Handles(<<176, 64, 0>>) =>
           /\ \A n \in sustained_notes : voices'[playing_notes[n]].releasing
           /\ sustained_notes' = {}

\* C19: the sustained set is a subset of the registered notes, so the sustain
\* release finds (and releases) a Voice for every sustained note, and it
\* leaves the sustained set empty.
C19_SustainedAreRegistered == [][SustainedAreRegistered]_vars

\* ... which holds of every step taken before any callback has panicked.
C19_SustainedAreRegistered_UnlessPoisoned == [][~poisoned => SustainedAreRegistered]_vars

\* C20: the amplitude multiplier of every sound is within [0, 1].
C20_AmplitudeInRange ==
    \A s \in Slots : \A i \in 1 .. Len(sinks[s]) :
        sinks[s][i].volume >= 0 /\ sinks[s][i].volume <= VOL_ONE

====
